---- MODULE Spec2Model ----
(***************************************************************************)
(* Model of the Student record of the jiu-jitsu backend                    *)
(* (src/src/models/student.py) and of the handlers of                      *)
(* src/src/routes/students.py that edit it.                                *)
(*                                                                         *)
(* A Student is a record with the eleven attributes set by __init__.  A    *)
(* document of the 'students' or 'users' collection is a function whose    *)
(* domain is the set of keys it holds.  Timestamps are positive integers;  *)
(* the null timestamp (None) is NullDate.                                  *)
(***************************************************************************)
EXTENDS Integers, Sequences, FiniteSets, TLC

VARIABLES
    store,      \* the 'students' collection: document id -> document
    users,      \* the 'users' collection: document id -> document
    mem,        \* per caller: the Student object it holds, or None
    pc,         \* per caller: "idle", or "update" inside update_student
    last,       \* the call made by the last step and what it returned
    needed,     \* the value last returned by calculate_presences_for_next_degree,
                \* or the max_presences of the last roster query
    data,       \* the dictionary last handed to from_dict / produced by to_dict
    students,   \* the list last produced by get_all
    close,      \* the list last returned by get_students_close_to_graduation
    now         \* the clock that datetime.now() reads

vars == <<store, users, mem, pc, last, needed, data, students, close, now>>

----------------------------------------------------------------------------
(* Bounds of the model *)

MaxNow == 3             \* add_presence is not called once the clock shows MaxNow
CalcMaxAge == 15        \* evaluator inputs: age in 0..CalcMaxAge
CalcMaxDegrees == 5     \* evaluator inputs: degrees in -2..CalcMaxDegrees
CalcMaxTotal == 52      \* evaluator inputs: total_presences in -2..CalcMaxTotal
MaxMissing == 2         \* from_dict inputs: documents lacking up to MaxMissing keys
QueryMaxTotal == 12     \* roster documents: total_presences in 0..QueryMaxTotal
QueryMaxThreshold == 14 \* max_presences in 0..QueryMaxThreshold

Procs == {1, 2}         \* two concurrent callers
UIDs == {"u1"}          \* the student the callers work on
UidOrder == <<"u1", "u2">>  \* the document ids of a roster, in stream() order

----------------------------------------------------------------------------
(* Python values *)

NullDate == 0
None == [none |-> TRUE]
EmptyDict == [k \in {} |-> 0]
NoCall == [op |-> "none", outcome |-> "ok", ret |-> FALSE]

Max(a, b) == IF a >= b THEN a ELSE b

\* dict.get(key, default)
Get(d, key, default) == IF key \in DOMAIN d THEN d[key] ELSE default

----------------------------------------------------------------------------
(* class Student *)

\* Student.__init__
Student(uid, name, email, belt, age, address, education, degrees) ==
    [uid |-> uid, name |-> name, email |-> email, belt |-> belt, age |-> age,
     address |-> address, education |-> education, degrees |-> degrees,
     total_presences |-> 0,
     last_presence_date |-> NullDate,
     history_presences |-> <<>>]

\* Student.to_dict
to_dict(self) ==
    [uid |-> self.uid,
     name |-> self.name,
     email |-> self.email,
     belt |-> self.belt,
     age |-> self.age,
     address |-> self.address,
     education |-> self.education,
     degrees |-> self.degrees,
     total_presences |-> self.total_presences,
     last_presence_date |-> self.last_presence_date,
     history_presences |-> self.history_presences]

\* faulty from_dict: last_presence_date is not restored
from_dict_without_last_date(d) ==
    LET student == Student(Get(d, "uid", ""), Get(d, "name", ""), Get(d, "email", ""),
                           Get(d, "belt", ""), Get(d, "age", 0), Get(d, "address", ""),
                           Get(d, "education", ""), Get(d, "degrees", 0))
    IN [student EXCEPT !.total_presences = Get(d, "total_presences", 0),
                       !.history_presences = Get(d, "history_presences", <<>>)]

\* Student.from_dict
from_dict(d) ==
    LET student == Student(Get(d, "uid", ""), Get(d, "name", ""), Get(d, "email", ""),
                           Get(d, "belt", ""), Get(d, "age", 0), Get(d, "address", ""),
                           Get(d, "education", ""), Get(d, "degrees", 0))
    IN [student EXCEPT !.total_presences = Get(d, "total_presences", 0),
                       !.last_presence_date = Get(d, "last_presence_date", NullDate),
                       !.history_presences = Get(d, "history_presences", <<>>)]

\* faulty evaluator: the adult white belt goes by degrees
calculate_adult_by_degrees(self) ==
    IF self.age <= 6 THEN
        IF self.degrees = 0 THEN Max(0, 10 - self.total_presences)
        ELSE IF self.degrees = 1 THEN Max(0, 15 - self.total_presences)
        ELSE IF self.degrees = 2 THEN Max(0, 15 - self.total_presences)
        ELSE IF self.degrees = 3 THEN Max(0, 20 - self.total_presences)
        ELSE 0
    ELSE IF self.age <= 13 THEN
        Max(0, (self.degrees + 1) * 25 - self.total_presences)
    ELSE
        IF self.belt \in {"colorida", "cinza", "amarela", "laranja", "verde"}
            THEN Max(0, 35 - self.total_presences)
        ELSE Max(0, (self.degrees + 1) * 50 - self.total_presences)

\* faulty evaluator: the kids bracket ends before age 6
calculate_kids_under_6(self) ==
    IF self.age < 6 THEN
        IF self.degrees = 0 THEN Max(0, 10 - self.total_presences)
        ELSE IF self.degrees = 1 THEN Max(0, 15 - self.total_presences)
        ELSE IF self.degrees = 2 THEN Max(0, 15 - self.total_presences)
        ELSE IF self.degrees = 3 THEN Max(0, 20 - self.total_presences)
        ELSE 0
    ELSE IF self.age <= 13 THEN
        Max(0, (self.degrees + 1) * 25 - self.total_presences)
    ELSE
        IF self.belt = "branca" THEN Max(0, 50 - self.total_presences)
        ELSE IF self.belt \in {"colorida", "cinza", "amarela", "laranja", "verde"}
            THEN Max(0, 35 - self.total_presences)
        ELSE Max(0, (self.degrees + 1) * 50 - self.total_presences)

\* faulty evaluator: the youth bracket is not clamped
calculate_youth_unclamped(self) ==
    IF self.age <= 6 THEN
        IF self.degrees = 0 THEN Max(0, 10 - self.total_presences)
        ELSE IF self.degrees = 1 THEN Max(0, 15 - self.total_presences)
        ELSE IF self.degrees = 2 THEN Max(0, 15 - self.total_presences)
        ELSE IF self.degrees = 3 THEN Max(0, 20 - self.total_presences)
        ELSE 0
    ELSE IF self.age <= 13 THEN
        (self.degrees + 1) * 25 - self.total_presences
    ELSE
        IF self.belt = "branca" THEN Max(0, 50 - self.total_presences)
        ELSE IF self.belt \in {"colorida", "cinza", "amarela", "laranja", "verde"}
            THEN Max(0, 35 - self.total_presences)
        ELSE Max(0, (self.degrees + 1) * 50 - self.total_presences)

\* Student.calculate_presences_for_next_degree
calculate_presences_for_next_degree(self) ==
    IF self.age <= 6 THEN
        IF self.degrees = 0 THEN Max(0, 10 - self.total_presences)
        ELSE IF self.degrees = 1 THEN Max(0, 15 - self.total_presences)
        ELSE IF self.degrees = 2 THEN Max(0, 15 - self.total_presences)
        ELSE IF self.degrees = 3 THEN Max(0, 20 - self.total_presences)
        ELSE 0
    ELSE IF self.age <= 13 THEN
        LET presences_needed == (self.degrees + 1) * 25
        IN Max(0, presences_needed - self.total_presences)
    ELSE
        IF self.belt = "branca" THEN Max(0, 50 - self.total_presences)
        ELSE IF self.belt \in {"colorida", "cinza", "amarela", "laranja", "verde"}
            THEN Max(0, 35 - self.total_presences)
        ELSE
            LET presences_needed == (self.degrees + 1) * 50
            IN Max(0, presences_needed - self.total_presences)

----------------------------------------------------------------------------
(* The evaluator on its own: one Student with attributes drawn from the    *)
(* input domain, and one step that evaluates it.                           *)

CalcBelts == {"branca", "colorida", "cinza", "amarela", "laranja", "verde",
              "azul", "preta",
              "white", "colored", "grey", "yellow", "orange", "green"}
CalcAges == 0..CalcMaxAge
CalcDegrees == -2..CalcMaxDegrees
CalcTotals == -2..CalcMaxTotal

CalcStudent(belt, age, degrees, total) ==
    [Student("u1", "n", "e", belt, age, "", "", degrees)
        EXCEPT !.total_presences = total]

InitCalc ==
    /\ store = EmptyDict /\ users = EmptyDict
    /\ \E belt \in CalcBelts, age \in CalcAges, degrees \in CalcDegrees,
          total \in CalcTotals :
          mem = [p \in Procs |-> IF p = 1 THEN CalcStudent(belt, age, degrees, total)
                                 ELSE None]
    /\ pc = [p \in Procs |-> "idle"]
    /\ last = NoCall
    /\ needed = 0
    /\ data = EmptyDict
    /\ students = <<>>
    /\ close = <<>>
    /\ now = 0

Evaluate ==
    /\ last.op = "none"
    /\ needed' = calculate_presences_for_next_degree(mem[1])
    /\ last' = [op |-> "calculate_presences_for_next_degree",
                outcome |-> "ok", ret |-> TRUE]
    /\ UNCHANGED <<store, users, mem, pc, data, students, close, now>>

NextCalc == Evaluate

SpecCalc == InitCalc /\ [][NextCalc]_vars

----------------------------------------------------------------------------
(* The Firestore gateway *)

\* DocumentReference.set(document, merge=True): the keys written replace the
\* stored ones, the other stored keys stay
set_merge(coll, id, document) ==
    LET old == IF id \in DOMAIN coll THEN coll[id] ELSE EmptyDict
    IN (id :> (document @@ old)) @@ coll

----------------------------------------------------------------------------
(* The methods of Student that reach the gateway.  Each takes the object,  *)
(* the collections and the outcome of the gateway calls, and gives the     *)
(* object and the collections after the call and the value returned.       *)

AddOutcomes == {"ok", "get_db", "set"}
SaveOutcomes == {"ok", "get_db", "set_users", "set_students"}
ReadOutcomes == {"ok", "get"}

\* faulty add_presence: the timestamp is appended after the write
add_presence_append_after_write(self, coll, date, outcome) ==
    IF outcome = "get_db" THEN
        [self |-> self, students |-> coll, ret |-> FALSE]
    ELSE
        LET counted == [self EXCEPT !.total_presences = @ + 1,
                                    !.last_presence_date = date]
            updated == [counted EXCEPT !.history_presences = Append(@, date)]
        IN IF outcome = "set"
           THEN [self |-> counted, students |-> coll, ret |-> FALSE]
           ELSE [self |-> updated,
                 students |-> set_merge(coll, counted.uid, to_dict(counted)),
                 ret |-> TRUE]

\* faulty add_presence: the object is updated only once the write succeeded
add_presence_write_first(self, coll, date, outcome) ==
    IF outcome = "get_db" THEN
        [self |-> self, students |-> coll, ret |-> FALSE]
    ELSE
        LET updated == [self EXCEPT !.total_presences = @ + 1,
                                    !.last_presence_date = date,
                                    !.history_presences = Append(@, date)]
        IN IF outcome = "set"
           THEN [self |-> self, students |-> coll, ret |-> FALSE]
           ELSE [self |-> updated,
                 students |-> set_merge(coll, updated.uid, to_dict(updated)),
                 ret |-> TRUE]

\* Student.add_presence
add_presence(self, coll, date, outcome) ==
    IF outcome = "get_db" THEN
        [self |-> self, students |-> coll, ret |-> FALSE]
    ELSE
        LET updated == [self EXCEPT !.total_presences = @ + 1,
                                    !.last_presence_date = date,
                                    !.history_presences = Append(@, date)]
        IN IF outcome = "set"
           THEN [self |-> updated, students |-> coll, ret |-> FALSE]
           ELSE [self |-> updated,
                 students |-> set_merge(coll, updated.uid, to_dict(updated)),
                 ret |-> TRUE]

\* Student.save
save(self, coll, ucoll, outcome) ==
    LET user_data == [uid |-> self.uid,
                      email |-> self.email,
                      role |-> "aluno",
                      name |-> self.name,
                      belt |-> self.belt,
                      age |-> self.age,
                      address |-> self.address,
                      education |-> self.education,
                      degrees |-> self.degrees]
    IN IF outcome \in {"get_db", "set_users"} THEN
           [students |-> coll, users |-> ucoll, ret |-> FALSE]
       ELSE IF outcome = "set_students" THEN
           [students |-> coll, users |-> set_merge(ucoll, self.uid, user_data),
            ret |-> FALSE]
       ELSE
           [students |-> set_merge(coll, self.uid, to_dict(self)),
            users |-> set_merge(ucoll, self.uid, user_data),
            ret |-> TRUE]

\* Student.get_by_uid
get_by_uid(coll, uid, outcome) ==
    IF outcome # "ok" THEN None
    ELSE IF uid \in DOMAIN coll THEN from_dict(coll[uid])
    ELSE None

----------------------------------------------------------------------------
(* update_student: the JSON body is a dictionary; int() of a value either  *)
(* gives an integer or raises.                                             *)

JsonInt(n) == [t |-> "int", v |-> n]
JsonNumStr(n) == [t |-> "str", v |-> n]
JsonBad == [t |-> "bad", v |-> 0]

\* int(x) raises ValueError
int_raises(x) == x.t = "bad"
\* int(x)
int(x) == x.v

\* update_student, "Atualizar campos fornecidos"
update_raises(body) ==
    \/ "age" \in DOMAIN body /\ int_raises(body["age"])
    \/ "degrees" \in DOMAIN body /\ int_raises(body["degrees"])

update_fields(student, body) ==
    [student EXCEPT
        !.name = IF "name" \in DOMAIN body THEN body["name"] ELSE @,
        !.belt = IF "belt" \in DOMAIN body THEN body["belt"] ELSE @,
        !.age = IF "age" \in DOMAIN body THEN int(body["age"]) ELSE @,
        !.address = IF "address" \in DOMAIN body THEN body["address"] ELSE @,
        !.education = IF "education" \in DOMAIN body THEN body["education"] ELSE @,
        !.degrees = IF "degrees" \in DOMAIN body THEN int(body["degrees"]) ELSE @]

----------------------------------------------------------------------------
(* The callers.  Each caller holds at most one Student object; it builds   *)
(* one, loads one, records attendance on it or saves it, or runs           *)
(* update_student, whose read and write are two gateway calls that other   *)
(* callers' steps can fall between.                                        *)

NewBelts == {"branca"}
NewAges == {20}
NewDegrees == {0}
Bodies == {[belt |-> "azul"],
           [degrees |-> JsonBad],
           [name |-> "m", belt |-> "roxa", age |-> JsonInt(21), address |-> "a",
            education |-> "s", degrees |-> JsonNumStr(1)]}

Held(uid) == \E p \in Procs : mem[p] # None /\ mem[p].uid = uid

Init ==
    /\ store = EmptyDict
    /\ users = EmptyDict
    /\ mem = [p \in Procs |-> None]
    /\ pc = [p \in Procs |-> "idle"]
    /\ last = NoCall
    /\ needed = 0
    /\ data = EmptyDict
    /\ students = <<>>
    /\ close = <<>>
    /\ now = 0

\* create_student builds the object under the uid the account service issued
NewStudent(p, uid, belt, age, degrees) ==
    /\ pc[p] = "idle"
    /\ uid \notin DOMAIN store /\ uid \notin DOMAIN users /\ ~Held(uid)
    /\ mem' = [mem EXCEPT ![p] = Student(uid, "n", "e", belt, age, "", "", degrees)]
    /\ last' = [op |-> "Student", outcome |-> "ok", ret |-> TRUE]
    /\ UNCHANGED <<store, users, pc, needed, data, students, close, now>>

Save(p, outcome) ==
    /\ pc[p] = "idle" /\ mem[p] # None
    /\ LET r == save(mem[p], store, users, outcome)
       IN /\ store' = r.students
          /\ users' = r.users
          /\ last' = [op |-> "save", outcome |-> outcome, ret |-> r.ret]
    /\ UNCHANGED <<mem, pc, needed, data, students, close, now>>

GetByUid(p, uid, outcome) ==
    /\ pc[p] = "idle"
    /\ LET r == get_by_uid(store, uid, outcome)
       IN /\ mem' = [mem EXCEPT ![p] = r]
          /\ last' = [op |-> "get_by_uid", outcome |-> outcome, ret |-> (r # None)]
    /\ UNCHANGED <<store, users, pc, needed, data, students, close, now>>

\* add_presence() with date = datetime.now()
AddPresence(p, outcome) ==
    /\ pc[p] = "idle" /\ mem[p] # None
    /\ now < MaxNow
    /\ now' = now + 1
    /\ LET r == add_presence(mem[p], store, now', outcome)
       IN /\ mem' = [mem EXCEPT ![p] = r.self]
          /\ store' = r.students
          /\ last' = [op |-> "add_presence", outcome |-> outcome, ret |-> r.ret]
    /\ UNCHANGED <<users, pc, needed, data, students, close>>

\* update_student up to "Buscar estudante existente"
UpdateGet(p, uid, outcome) ==
    /\ pc[p] = "idle"
    /\ LET student == get_by_uid(store, uid, outcome)
       IN IF student = None
          THEN /\ mem' = [mem EXCEPT ![p] = None]
               /\ last' = [op |-> "update_student", outcome |-> outcome, ret |-> FALSE]
               /\ pc' = pc
          ELSE /\ mem' = [mem EXCEPT ![p] = student]
               /\ last' = [op |-> "update_student.get", outcome |-> outcome,
                           ret |-> TRUE]
               /\ pc' = [pc EXCEPT ![p] = "update"]
    /\ UNCHANGED <<store, users, needed, data, students, close, now>>

\* update_student from "Atualizar campos fornecidos" to its response
UpdateSave(p, body, outcome) ==
    /\ pc[p] = "update"
    /\ IF update_raises(body)
       THEN /\ last' = [op |-> "update_student", outcome |-> "int", ret |-> FALSE]
            /\ UNCHANGED <<store, users>>
       ELSE LET r == save(update_fields(mem[p], body), store, users, outcome)
            IN /\ store' = r.students
               /\ users' = r.users
               /\ last' = [op |-> "update_student", outcome |-> outcome,
                           ret |-> r.ret]
    /\ mem' = [mem EXCEPT ![p] = None]
    /\ pc' = [pc EXCEPT ![p] = "idle"]
    /\ UNCHANGED <<needed, data, students, close, now>>

Next ==
    \/ \E p \in Procs, uid \in UIDs, belt \in NewBelts, age \in NewAges,
          degrees \in NewDegrees : NewStudent(p, uid, belt, age, degrees)
    \/ \E p \in Procs, outcome \in SaveOutcomes : Save(p, outcome)
    \/ \E p \in Procs, uid \in UIDs, outcome \in ReadOutcomes : GetByUid(p, uid, outcome)
    \/ \E p \in Procs, outcome \in AddOutcomes : AddPresence(p, outcome)
    \/ \E p \in Procs, uid \in UIDs, outcome \in ReadOutcomes : UpdateGet(p, uid, outcome)
    \/ \E p \in Procs, body \in Bodies, outcome \in SaveOutcomes :
          UpdateSave(p, body, outcome)

Spec == Init /\ [][Next]_vars

----------------------------------------------------------------------------
(* to_dict and from_dict on their own: a document that lacks some keys is  *)
(* read into a Student, which is then edited, marked present and           *)
(* serialised again.                                                       *)

OptionalKeys == {"name", "email", "belt", "age", "address", "education", "degrees",
                 "total_presences", "last_presence_date", "history_presences"}

\* a stored document none of whose values is the default from_dict would fill in
FullDoc ==
    [uid |-> "u1", name |-> "n", email |-> "e", belt |-> "branca", age |-> 20,
     address |-> "a", education |-> "s", degrees |-> 1, total_presences |-> 1,
     last_presence_date |-> 1, history_presences |-> <<1>>]

Restrict(d, keys) == [k \in keys |-> d[k]]

RawDocs ==
    { Restrict(FullDoc, DOMAIN FullDoc \ missing) :
        missing \in {m \in SUBSET OptionalKeys : Cardinality(m) <= MaxMissing} }
    \cup {Restrict(FullDoc, {"uid"})}

InitDict ==
    /\ store = EmptyDict
    /\ users = EmptyDict
    /\ mem = [p \in Procs |-> None]
    /\ pc = [p \in Procs |-> "idle"]
    /\ last = NoCall
    /\ needed = 0
    /\ data \in RawDocs
    /\ students = <<>>
    /\ close = <<>>
    /\ now = 1

\* cls.from_dict(doc.to_dict()) of get_by_uid and get_all
FromDict ==
    /\ mem' = [mem EXCEPT ![1] = from_dict(data)]
    /\ last' = [op |-> "from_dict", outcome |-> "ok", ret |-> TRUE]
    /\ UNCHANGED <<store, users, pc, needed, data, students, close, now>>

\* student.to_dict() of the handlers
ToDict ==
    /\ mem[1] # None
    /\ data' = to_dict(mem[1])
    /\ last' = [op |-> "to_dict", outcome |-> "ok", ret |-> TRUE]
    /\ UNCHANGED <<store, users, mem, pc, needed, students, close, now>>

\* the field replacement of update_student
EditFields(body) ==
    /\ mem[1] # None
    /\ ~update_raises(body)
    /\ mem' = [mem EXCEPT ![1] = update_fields(mem[1], body)]
    /\ last' = [op |-> "update_fields", outcome |-> "ok", ret |-> TRUE]
    /\ UNCHANGED <<store, users, pc, needed, data, students, close, now>>

NextDict ==
    \/ FromDict
    \/ ToDict
    \/ \E body \in Bodies : EditFields(body)
    \/ \E outcome \in AddOutcomes : AddPresence(1, outcome)
    \/ \E belt \in NewBelts, age \in NewAges, degrees \in NewDegrees :
          NewStudent(1, "u1", belt, age, degrees)

SpecDict == InitDict /\ [][NextDict]_vars

----------------------------------------------------------------------------
(* The roster queries on their own: a 'students' collection of documents   *)
(* the program has written, and one query.                                 *)

\* Student.get_all
get_all(coll, outcome) ==
    IF outcome # "ok" THEN <<>>
    ELSE LET ids == SelectSeq(UidOrder, LAMBDA id : id \in DOMAIN coll)
         IN [i \in 1..Len(ids) |-> from_dict(coll[ids[i]])]

\* the loop of Student.get_students_close_to_graduation
RECURSIVE close_loop(_, _, _, _)
close_loop(list, i, max_presences, close_to_graduation) ==
    IF i > Len(list) THEN close_to_graduation
    ELSE LET student == list[i]
             presences_needed == calculate_presences_for_next_degree(student)
         IN close_loop(list, i + 1, max_presences,
                       IF 0 < presences_needed /\ presences_needed <= max_presences
                       THEN Append(close_to_graduation, student)
                       ELSE close_to_graduation)

\* faulty query: a need of 0 counts as close
get_students_close_inclusive(list, max_presences) ==
    SelectSeq(list, LAMBDA student :
        calculate_presences_for_next_degree(student) <= max_presences)

\* Student.get_students_close_to_graduation
get_students_close_to_graduation(list, max_presences) ==
    close_loop(list, 1, max_presences, <<>>)

QueryAges == {5, 10}
QueryDegrees == {0, 4}
QueryTotals == 0..QueryMaxTotal
Thresholds == 0..QueryMaxThreshold

\* the document of a student after total calls of add_presence
QueryDoc(uid, age, degrees, total) ==
    to_dict([Student(uid, "n", "e", "branca", age, "", "", degrees)
                EXCEPT !.total_presences = total,
                       !.last_presence_date = total,
                       !.history_presences = [i \in 1..total |-> i]])

QueryDocs(uid) ==
    {QueryDoc(uid, age, degrees, total) :
        age \in QueryAges, degrees \in QueryDegrees, total \in QueryTotals}

InitQuery ==
    /\ \E ids \in SUBSET {UidOrder[i] : i \in 1..Len(UidOrder)} :
          store \in [ids -> UNION {QueryDocs(id) : id \in ids}]
    /\ \A id \in DOMAIN store : store[id].uid = id
    /\ users = EmptyDict
    /\ mem = [p \in Procs |-> None]
    /\ pc = [p \in Procs |-> "idle"]
    /\ last = NoCall
    /\ needed = 0
    /\ data = EmptyDict
    /\ students = <<>>
    /\ close = <<>>
    /\ now = 0

CloseToGraduation(max_presences, outcome) ==
    /\ last.op = "none"
    /\ students' = get_all(store, outcome)
    /\ close' = get_students_close_to_graduation(students', max_presences)
    /\ needed' = max_presences
    /\ last' = [op |-> "get_students_close_to_graduation", outcome |-> outcome,
                ret |-> TRUE]
    /\ UNCHANGED <<store, users, mem, pc, data, now>>

NextQuery ==
    \E max_presences \in Thresholds, outcome \in ReadOutcomes :
        CloseToGraduation(max_presences, outcome)

SpecQuery == InitQuery /\ [][NextQuery]_vars

----------------------------------------------------------------------------
(* Properties of the evaluator, checked under SpecCalc *)

Evaluated == last.op = "calculate_presences_for_next_degree"
Generic(per_degree, self) == Max(0, (self.degrees + 1) * per_degree - self.total_presences)

\* C1 as stated: for age >= 14 the result is keyed by the belt label: "white"
\* gives max(0, 50 - total_presences) and "colored", "grey", "yellow", "orange",
\* "green" give max(0, 35 - total_presences) whatever degrees is; any other
\* label gives max(0, (degrees + 1) * 50 - total_presences).
C1_EnglishLabels ==
    Evaluated /\ mem[1].age >= 14 =>
        LET self == mem[1] IN
        IF self.belt = "white" THEN needed = Max(0, 50 - self.total_presences)
        ELSE IF self.belt \in {"colored", "grey", "yellow", "orange", "green"}
            THEN needed = Max(0, 35 - self.total_presences)
        ELSE needed = Generic(50, self)

\* C1 amended: for age >= 14 the result is keyed by the belt label as the
\* program spells it: "branca" gives max(0, 50 - total_presences) and
\* "colorida", "cinza", "amarela", "laranja", "verde" give
\* max(0, 35 - total_presences) whatever degrees is; any other label, the
\* English ones included, gives max(0, (degrees + 1) * 50 - total_presences).
C1_BeltKeyed ==
    Evaluated /\ mem[1].age >= 14 =>
        LET self == mem[1] IN
        IF self.belt = "branca" THEN needed = Max(0, 50 - self.total_presences)
        ELSE IF self.belt \in {"colorida", "cinza", "amarela", "laranja", "verde"}
            THEN needed = Max(0, 35 - self.total_presences)
        ELSE needed = Generic(50, self)

C1_Witness ==
    /\ Evaluated
    /\ mem[1].age = 14 /\ mem[1].belt = "cinza" /\ mem[1].degrees = 3
    /\ mem[1].total_presences = 0
    /\ needed = 35

\* C2: for age <= 13, degrees >= 0 and total_presences >= 0 the belt is ignored:
\* age <= 6 gives max(0, required - total_presences) with required 10, 15, 15,
\* 20 for degrees 0, 1, 2, 3 and 0 for degrees >= 4; 7 <= age <= 13 gives
\* max(0, (degrees + 1) * 25 - total_presences).
C2_AgeBrackets ==
    Evaluated /\ mem[1].age <= 13 /\ mem[1].degrees >= 0
              /\ mem[1].total_presences >= 0 =>
        LET self == mem[1]
            required == CASE self.degrees = 0 -> 10
                          [] self.degrees = 1 -> 15
                          [] self.degrees = 2 -> 15
                          [] self.degrees = 3 -> 20
                          [] OTHER -> 0
        IN IF self.age <= 6
           THEN IF self.degrees >= 4 THEN needed = 0
                ELSE needed = Max(0, required - self.total_presences)
           ELSE needed = Generic(25, self)

C2_Witness ==
    /\ Evaluated
    /\ mem[1].age = 6 /\ mem[1].belt = "azul" /\ mem[1].degrees = 3
    /\ mem[1].total_presences = 12
    /\ needed = 8

\* C3: the result is a non-negative integer for every age, belt, degrees and
\* total_presences, negative degrees and negative total_presences included.
C3_NonNegative == Evaluated => needed \in Nat

C3_Witness ==
    /\ Evaluated
    /\ mem[1].age = 10 /\ mem[1].degrees = -2 /\ mem[1].total_presences = -1
    /\ needed = 0

\* C10: negative counts are treated as zero: the result for a negative degrees
\* is the result for degrees = 0, and the result for a negative total_presences
\* is the result for total_presences = 0, the other inputs unchanged.
C10_NegativeAsZero ==
    Evaluated =>
        needed = calculate_presences_for_next_degree(
                    [mem[1] EXCEPT !.degrees = Max(0, @),
                                   !.total_presences = Max(0, @)])

----------------------------------------------------------------------------
(* Properties of the callers, checked under Spec *)

Consistent(r) == r.total_presences = Len(r.history_presences)

\* C4: total_presences equals the length of history_presences in every Student
\* object and in every stored student document, whether the calls of
\* add_presence succeeded or failed.
C4_TotalIsHistoryLength ==
    /\ \A p \in Procs : mem[p] # None => Consistent(mem[p])
    /\ \A id \in DOMAIN store : Consistent(store[id])

C4_Witness ==
    /\ last.op = "add_presence" /\ last.outcome = "set"
    /\ \E p \in Procs :
          /\ mem[p] # None
          /\ mem[p].total_presences = 2
          /\ mem[p].uid \in DOMAIN store
          /\ store[mem[p].uid].total_presences = 1

\* C5: in the stored student document total_presences never decreases and no
\* timestamp of history_presences is ever removed, across any interleaving of
\* add_presence and update_student on the same student.
C5_StoredMonotone ==
    [][last'.op \in {"add_presence", "update_student"} =>
       \A id \in DOMAIN store :
          /\ id \in DOMAIN store'
          /\ store'[id].total_presences >= store[id].total_presences
          /\ \A i \in 1..Len(store[id].history_presences) :
                \E j \in 1..Len(store'[id].history_presences) :
                    store'[id].history_presences[j] = store[id].history_presences[i]
      ]_vars

\* C6: every add_presence step leaves belt and degrees as they were, in the
\* Student object and in the stored student document.
C6_AddPresenceKeepsBelt ==
    [][now' # now =>
          /\ \A p \in Procs : mem[p] # None =>
                mem'[p].belt = mem[p].belt /\ mem'[p].degrees = mem[p].degrees
          /\ \A id \in DOMAIN store :
                /\ store'[id].belt = store[id].belt
                /\ store'[id].degrees = store[id].degrees
      ]_vars

\* C7: when the gateway write inside add_presence fails, add_presence returns
\* False, the object has one more presence, its last_presence_date is the
\* timestamp and the timestamp ends its history_presences, and the stored
\* documents are as they were.
C7_FailedWrite ==
    [][now' # now /\ last'.outcome = "set" =>
          /\ last'.op = "add_presence" /\ last'.ret = FALSE
          /\ store' = store
          /\ \E p \in Procs :
                /\ mem[p] # None
                /\ mem'[p].total_presences = mem[p].total_presences + 1
                /\ mem'[p].last_presence_date = now'
                /\ mem'[p].history_presences = Append(mem[p].history_presences, now')
                /\ \A q \in Procs \ {p} : mem'[q] = mem[q]
      ]_vars

C7_Witness ==
    /\ last.op = "add_presence" /\ last.outcome = "set" /\ last.ret = FALSE
    /\ \E p \in Procs :
          /\ mem[p] # None
          /\ mem[p].last_presence_date = now
          /\ mem[p].total_presences = 1
          /\ mem[p].uid \notin DOMAIN store

----------------------------------------------------------------------------
(* The round trip, checked under SpecDict *)

Default(key) ==
    CASE key \in {"age", "degrees", "total_presences"} -> 0
      [] key = "last_presence_date" -> NullDate
      [] key = "history_presences" -> <<>>
      [] OTHER -> ""

\* C8: from_dict(s.to_dict()) equals s in every field, for every Student s built,
\* edited and marked present; and from_dict of a document lacking optional keys
\* fills 0, "", null and the empty sequence, takes the other keys as stored, and
\* gives a Student that to_dict and from_dict reproduce.
C8_RoundTrip ==
    /\ mem[1] # None =>
          /\ DOMAIN to_dict(mem[1]) = {"uid"} \cup OptionalKeys
          /\ \A key \in DOMAIN mem[1] : from_dict(to_dict(mem[1]))[key] = mem[1][key]
          /\ DOMAIN from_dict(to_dict(mem[1])) = DOMAIN mem[1]
    /\ last.op = "from_dict" =>
          \A key \in {"uid"} \cup OptionalKeys :
              mem[1][key] = IF key \in DOMAIN data THEN data[key] ELSE Default(key)
    /\ last.op = "to_dict" =>
          /\ \A key \in DOMAIN data : data[key] = mem[1][key]
          /\ from_dict(data) = mem[1]

C8_Witness ==
    /\ last.op = "to_dict"
    /\ mem[1].name = "" /\ mem[1].degrees = 0 /\ mem[1].belt = "azul"
    /\ mem[1].total_presences = 2 /\ mem[1].last_presence_date = 2
    /\ mem[1].history_presences = <<1, 2>>
    /\ from_dict(data) = mem[1]

----------------------------------------------------------------------------
(* The roster query, checked under SpecQuery *)

Queried == last.op = "get_students_close_to_graduation"
Need(i) == calculate_presences_for_next_degree(students[i])

\* C9: get_students_close_to_graduation(max_presences) returns exactly the
\* records of get_all() whose need n has 0 < n <= max_presences, in get_all()
\* order, and the empty sequence when the gateway read fails.
C9_CloseToGraduation ==
    Queried =>
        /\ close = SelectSeq(students,
                LAMBDA s : LET n == calculate_presences_for_next_degree(s)
                           IN 0 < n /\ n <= needed)
        /\ \A i \in 1..Len(students) :
              (Need(i) = 0 \/ Need(i) > needed) =>
                  \A j \in 1..Len(close) : close[j] # students[i]
        /\ last.outcome # "ok" => close = <<>>
        /\ last.outcome = "ok" =>
              /\ Len(students) = Cardinality(DOMAIN store)
              /\ \A i \in 1..Len(students) :
                    /\ students[i].uid \in DOMAIN store
                    /\ to_dict(students[i]) = store[students[i].uid]

C9_Witness ==
    /\ Queried /\ last.outcome = "ok" /\ needed = 10
    /\ Len(students) = 2 /\ Len(close) = 1
    /\ students[1].age = 5 /\ students[1].degrees = 4 /\ Need(1) = 0
    /\ Need(2) = 10 /\ close[1] = students[2]

====
